---- MODULE Spec2Model ----
(***************************************************************************)
(* Quiz view controller of src/index.tsx: the registry of question         *)
(* elements, the view mode, the single-question index, and the re-parenting*)
(* of question nodes between the list and the single-question surface.     *)
(*                                                                         *)
(* The document is a set of parent containers 1..NumParents, each with an  *)
(* ordered list of child nodes.  A question element is a positive integer  *)
(* (its 1-based rank in document order); the text node that follows        *)
(* question q in the markup, when there is one, is the negative integer -q.*)
(* A node that occurs in no child list and not in the display surface is   *)
(* detached from the document.                                             *)
(***************************************************************************)
EXTENDS Integers, Sequences, FiniteSets, TLC

\* Largest number of .question elements in the document.
MaxQuestions == 3
\* Number of containers that hold questions.
NumParents == 2
\* Longest counted run of next clicks.
MaxClicks == MaxQuestions + 1

\* null (QuestionRef.originalNextSibling: Node | null; a failed getElementById)
Null == 0

Modes == {"list", "single", "exam"}
Cached == {"singleQuestionContainer", "questionProgress", "prevQuestionBtn", "nextQuestionBtn"}

VARIABLES
    allQuestions,          \* registry: Seq of [element, originalParent, originalNextSibling]
    currentQuestionIndex,  \* 0-based index
    currentMode,           \* "list" | "single" | "exam"
    cache,                 \* the cached elements that are non-null (the four of Cached, "fabControls")
    childNodes,            \* parent -> Seq(node): children of each question container
    surface,               \* children of #single-question-container
    progressText,          \* <<>> (markup text) or <<"Soru", a, "/", b>>
    prevDisabled,          \* prevQuestionBtn.disabled
    nextDisabled,          \* nextQuestionBtn.disabled
    viewMode,              \* document.body.dataset.viewMode
    activeBtns,            \* modes whose .mode-btn carries class "active"
    uncaught,              \* exception that ended the last handler, or "none"
    attempts,              \* question -> dataset.attempts (a string)
    answered,              \* question -> dataset.answered ("false" | "true")
    options,               \* question -> Seq of its .option elements (classes, disabled)
    explanation,           \* question -> its .show-answer-btn and the element after it
    weekActive,            \* week -> its .week-content carries class "active"
    iconTransform,         \* week -> its .toggle-icon #icon-N: present, style.transform
    menuOpen,              \* fabControls carries class "menu-open"
    layout,                \* history: childNodes at DOMContentLoaded
    lastCall,              \* history: the function the last handler called, or "none"
    rendered,              \* history: some renderSingleQuestion call took effect
    trip,                  \* history: phase of the List -> Single -> List round trip
    nextClicks,            \* history: next clicks since index 0 was shown, or -1
    lastActive             \* history: index shown when mode was last Single/Exam

progVars == <<allQuestions, currentQuestionIndex, currentMode, cache, childNodes,
              surface, progressText, prevDisabled, nextDisabled, viewMode, activeBtns>>
quizVars == <<attempts, answered, options, explanation>>
sectionVars == <<weekActive, iconTransform, menuOpen>>
histVars == <<layout, lastCall, rendered, trip, nextClicks, lastActive>>
vars == <<allQuestions, currentQuestionIndex, currentMode, cache, childNodes,
          surface, progressText, prevDisabled, nextDisabled, viewMode, activeBtns,
          uncaught, attempts, answered, options, explanation,
          weekActive, iconTransform, menuOpen,
          layout, lastCall, rendered, trip, nextClicks, lastActive>>

---------------------------------------------------------------------------
\* Sequence helpers (DOM child lists)

Contains(seq, x) == \E k \in 1..Len(seq) : seq[k] = x

Remove(seq, x) == SelectSeq(seq, LAMBDA y : y # x)

IndexOf(seq, x) == CHOOSE k \in 1..Len(seq) : seq[k] = x

\* nextSibling of x within the child list seq (x is in seq)
NextSiblingIn(seq, x) ==
    IF IndexOf(seq, x) = Len(seq) THEN Null ELSE seq[IndexOf(seq, x) + 1]

\* seq with x put immediately before ref, or last when ref = Null
InsertAt(seq, x, ref) ==
    IF ref = Null THEN Append(seq, x)
    ELSE SubSeq(seq, 1, IndexOf(seq, ref) - 1) \o <<x>> \o SubSeq(seq, IndexOf(seq, ref), Len(seq))

---------------------------------------------------------------------------
\* The document at load time

\* Children of parent p: the questions i..n whose parent is p, in order, each
\* followed by its text node when sep[i].
RECURSIVE Markup(_, _, _, _, _)
Markup(n, par, sep, p, i) ==
    IF i > n THEN <<>>
    ELSE (IF par[i] = p THEN (IF sep[i] THEN <<i, -i>> ELSE <<i>>) ELSE <<>>)
         \o Markup(n, par, sep, p, i + 1)

\* document.querySelectorAll('.question'): the question elements in document order
RECURSIVE QuerySelectorAllQuestion(_, _)
QuerySelectorAllQuestion(cn, p) ==
    IF p > NumParents THEN <<>>
    ELSE SelectSeq(cn[p], LAMBDA x : x > 0) \o QuerySelectorAllQuestion(cn, p + 1)

ParentElement(cn, x) == CHOOSE p \in 1..NumParents : Contains(cn[p], x)

\* The registry built by the DOMContentLoaded scan
Registry(cn) ==
    LET els == QuerySelectorAllQuestion(cn, 1)
    IN  [k \in 1..Len(els) |->
            [element |-> els[k],
             originalParent |-> ParentElement(cn, els[k]),
             originalNextSibling |-> NextSiblingIn(cn[ParentElement(cn, els[k])], els[k])]]

---------------------------------------------------------------------------
\* The mutable view state a handler works on, as one record

View ==
    [childNodes |-> childNodes, surface |-> surface,
     currentQuestionIndex |-> currentQuestionIndex, progressText |-> progressText,
     prevDisabled |-> prevDisabled, nextDisabled |-> nextDisabled,
     uncaught |-> "none"]

\* Node.removeChild / detaching a node from wherever it is attached
Detach(v, node) ==
    [v EXCEPT !.childNodes = [p \in 1..NumParents |-> Remove(v.childNodes[p], node)],
              !.surface = Remove(v.surface, node)]

\* parent.insertBefore(node, child) for a question container `parent`:
\* NotFoundError when child is non-null and not a child of parent; a child that
\* is the node itself stands for the node's next sibling.
insertBefore(v, parent, node, child) ==
    IF child # Null /\ ~Contains(v.childNodes[parent], child)
    THEN [v EXCEPT !.uncaught = "NotFoundError"]
    ELSE LET ref == IF child = node THEN NextSiblingIn(v.childNodes[parent], node) ELSE child
             d == Detach(v, node)
         IN  [d EXCEPT !.childNodes[parent] = InsertAt(d.childNodes[parent], node, ref)]

\* singleQuestionContainer.appendChild(node)
appendToSurface(v, node) ==
    LET d == Detach(v, node) IN [d EXCEPT !.surface = Append(d.surface, node)]

\* Mutant: the surface is not cleared.
clearSurfaceForgotten(v) == v

\* singleQuestionContainer.innerHTML = ''
clearSurface(v) == [v EXCEPT !.surface = <<>>]

\* Mutant: the label shows the 0-based index.
ProgressLabelZeroBased(index) == <<"Soru", index, "/", Len(allQuestions)>>

\* `Soru ${index + 1} / ${allQuestions.length}`
ProgressLabel(index) == <<"Soru", index + 1, "/", Len(allQuestions)>>

\* prevQuestionBtn.disabled = index === 0
PrevDisabledAt(index) == index = 0

\* Mutant: the last index is taken to be allQuestions.length.
NextDisabledAtLength(index) == index = Len(allQuestions)

\* nextQuestionBtn.disabled = index === allQuestions.length - 1
NextDisabledAt(index) == index = Len(allQuestions) - 1

\* The negation of renderSingleQuestion's early return
RenderActs == Cached \subseteq cache /\ Len(allQuestions) # 0

\* Mutant: element and label are taken from currentQuestionIndex as it was
\* before the call instead of from the parameter.
renderSingleQuestionStale(v, index) ==
    IF ~RenderActs THEN v
    ELSE IF index < 0 \/ index >= Len(allQuestions)
    THEN [clearSurface(v) EXCEPT !.currentQuestionIndex = index, !.uncaught = "TypeError"]
    ELSE [appendToSurface(clearSurface(v), allQuestions[v.currentQuestionIndex + 1].element)
            EXCEPT !.currentQuestionIndex = index,
                   !.progressText = ProgressLabel(v.currentQuestionIndex),
                   !.prevDisabled = PrevDisabledAt(index),
                   !.nextDisabled = NextDisabledAt(index)]

renderSingleQuestion(v, index) ==
    IF ~RenderActs THEN v
    ELSE IF index < 0 \/ index >= Len(allQuestions)
    THEN \* allQuestions[index] is undefined: reading .element throws
         [clearSurface(v) EXCEPT !.currentQuestionIndex = index, !.uncaught = "TypeError"]
    ELSE [appendToSurface(clearSurface(v), allQuestions[index + 1].element)
            EXCEPT !.currentQuestionIndex = index,
                   !.progressText = ProgressLabel(index),
                   !.prevDisabled = PrevDisabledAt(index),
                   !.nextDisabled = NextDisabledAt(index)]

\* allQuestions.forEach from entry k on; an exception ends the pass
RECURSIVE RestoreFrom(_, _)
RestoreFrom(v, k) ==
    IF k > Len(allQuestions) THEN v
    ELSE LET q == allQuestions[k]
             r == insertBefore(v, q.originalParent, q.element, q.originalNextSibling)
         IN  IF r.uncaught # "none" THEN r ELSE RestoreFrom(r, k + 1)

restoreListView(v) ==
    RestoreFrom(IF "singleQuestionContainer" \in cache THEN clearSurface(v) ELSE v, 1)

\* The variables take the values of view record v
Commit(v) ==
    /\ childNodes' = v.childNodes
    /\ surface' = v.surface
    /\ currentQuestionIndex' = v.currentQuestionIndex
    /\ progressText' = v.progressText
    /\ prevDisabled' = v.prevDisabled
    /\ nextDisabled' = v.nextDisabled
    /\ uncaught' = v.uncaught

---------------------------------------------------------------------------
\* Initial state: after the DOMContentLoaded handler

Monotone(n, par) == \A i \in 1..n, j \in 1..n : i < j => par[i] <= par[j]

\* a question without .show-answer-btn
NoExplanation == [present |-> FALSE, display |-> "", animation |-> "", button |-> "markup"]

\* questionElement.dataset.attempts = '0'; dataset.answered = 'false'
InitQuestionState(n) ==
    /\ attempts = [q \in 1..n |-> "0"]
    /\ answered = [q \in 1..n |-> "false"]

\* a document whose questions hold no options and no explanation, and that has
\* no week sections
PlainQuestions(n) ==
    /\ InitQuestionState(n)
    /\ options = [q \in 1..n |-> <<>>]
    /\ explanation = [q \in 1..n |-> NoExplanation]

NoSections == weekActive = <<>> /\ iconTransform = <<>> /\ menuOpen = FALSE

Init ==
    \E n \in 0..MaxQuestions :
    \E par \in [1..n -> 1..NumParents] :
    \E sep \in [1..n -> BOOLEAN] :
    \E found \in SUBSET Cached :
        /\ Monotone(n, par)
        /\ childNodes = [p \in 1..NumParents |-> Markup(n, par, sep, p, 1)]
        /\ layout = childNodes
        /\ allQuestions = Registry(childNodes)
        /\ cache = found
        /\ currentQuestionIndex = 0
        /\ currentMode = "list"
        /\ surface = <<>>
        /\ progressText = <<>>
        /\ prevDisabled = FALSE
        /\ nextDisabled = FALSE
        /\ viewMode = "unset"
        /\ activeBtns = {"list"}
        /\ uncaught = "none"
        /\ lastCall = "none"
        /\ rendered = FALSE
        /\ trip = "start"
        /\ nextClicks = -1
        /\ lastActive = 0
        /\ PlainQuestions(n)
        /\ NoSections

---------------------------------------------------------------------------
\* Handlers

\* Mutant: the view functions run the question-state initialization again.
AnswersReset ==
    /\ attempts' = [q \in DOMAIN attempts |-> "0"]
    /\ answered' = [q \in DOMAIN answered |-> "false"]
    /\ UNCHANGED <<options, explanation>>

\* switchMode, renderSingleQuestion and restoreListView move elements and
\* write no dataset value, class or attribute of a question
AnswersKept == UNCHANGED <<attempts, answered, options, explanation>>

\* switchMode(newMode): what the code does
switchModeCore(newMode) ==
    /\ IF currentMode = newMode
       THEN /\ uncaught' = "none"
            /\ UNCHANGED progVars
       ELSE /\ currentMode' = newMode
            /\ viewMode' = newMode
            /\ activeBtns' = {newMode}
            /\ Commit(IF newMode = "list" THEN restoreListView(View)
                      ELSE renderSingleQuestion(View, currentQuestionIndex))
            /\ UNCHANGED <<allQuestions, cache>>
    /\ AnswersKept
    /\ UNCHANGED sectionVars

\* switchMode(newMode): the history it leaves
switchModeHistory(newMode) ==
    /\ IF currentMode = newMode
       THEN /\ lastCall' = "none"
            /\ UNCHANGED <<rendered, trip, nextClicks>>
       ELSE /\ lastCall' = IF newMode = "list" THEN "restoreListView" ELSE "renderSingleQuestion"
            /\ rendered' = (rendered \/ (newMode # "list" /\ RenderActs))
            /\ trip' = IF newMode = "list"
                       THEN (IF trip = "away" THEN "back" ELSE "off")
                       ELSE (IF trip = "start" THEN "away" ELSE "off")
            /\ nextClicks' = IF newMode # "list" /\ currentQuestionIndex' = 0 THEN 0 ELSE -1
    /\ lastActive' = IF currentMode' # "list" THEN currentQuestionIndex' ELSE lastActive
    /\ UNCHANGED layout

\* click on the .mode-btn with data-mode = newMode
switchMode(newMode) == switchModeCore(newMode) /\ switchModeHistory(newMode)

ClickMode == \E newMode \in Modes : switchMode(newMode)

\* currentQuestionIndex > 0
HasPrev == currentQuestionIndex > 0

\* Mutant: the upper bound is off by one.
HasNextOffByOne == currentQuestionIndex <= Len(allQuestions) - 1

\* currentQuestionIndex < allQuestions.length - 1
HasNext == currentQuestionIndex < Len(allQuestions) - 1

\* the previous handler: what the code does
ClickPrevCore ==
    /\ "prevQuestionBtn" \in cache
    /\ IF HasPrev
       THEN Commit(renderSingleQuestion(View, currentQuestionIndex - 1))
       ELSE /\ uncaught' = "none"
            /\ UNCHANGED <<childNodes, surface, currentQuestionIndex, progressText,
                           prevDisabled, nextDisabled>>
    /\ UNCHANGED <<allQuestions, cache, currentMode, viewMode, activeBtns>>
    /\ AnswersKept
    /\ UNCHANGED sectionVars

ClickPrevHistory ==
    /\ IF HasPrev
       THEN /\ lastCall' = "renderSingleQuestion"
            /\ rendered' = (rendered \/ RenderActs)
            /\ nextClicks' = IF currentMode # "list" /\ currentQuestionIndex' = 0 THEN 0 ELSE -1
       ELSE /\ lastCall' = "none"
            /\ UNCHANGED <<rendered, nextClicks>>
    /\ trip' = IF trip = "away" THEN "away" ELSE "off"
    /\ lastActive' = IF currentMode' # "list" THEN currentQuestionIndex' ELSE lastActive
    /\ UNCHANGED layout

\* click on #prev-question-btn
ClickPrev == ClickPrevCore /\ ClickPrevHistory

\* the next handler: what the code does
ClickNextCore ==
    /\ "nextQuestionBtn" \in cache
    /\ IF HasNext
       THEN Commit(renderSingleQuestion(View, currentQuestionIndex + 1))
       ELSE /\ uncaught' = "none"
            /\ UNCHANGED <<childNodes, surface, currentQuestionIndex, progressText,
                           prevDisabled, nextDisabled>>
    /\ UNCHANGED <<allQuestions, cache, currentMode, viewMode, activeBtns>>
    /\ AnswersKept
    /\ UNCHANGED sectionVars

\* the history counter nextClicks is kept below MaxClicks, which is more clicks
\* than any registry needs to reach its end
ClickNextHistory ==
    /\ nextClicks < MaxClicks
    /\ IF HasNext
       THEN /\ lastCall' = "renderSingleQuestion"
            /\ rendered' = (rendered \/ RenderActs)
       ELSE /\ lastCall' = "none"
            /\ UNCHANGED rendered
    /\ nextClicks' = IF nextClicks >= 0 THEN nextClicks + 1 ELSE -1
    /\ trip' = IF trip = "away" THEN "away" ELSE "off"
    /\ lastActive' = IF currentMode' # "list" THEN currentQuestionIndex' ELSE lastActive
    /\ UNCHANGED layout

\* click on #next-question-btn
ClickNext == ClickNextCore /\ ClickNextHistory

Next == ClickMode \/ ClickPrev \/ ClickNext

Spec == Init /\ [][Next]_vars

---------------------------------------------------------------------------
\* Answering: options, attempts and the explanation of each question

\* Largest number of .option elements in the document.
MaxOptions == 3

\* attempts >= 2
MaxAttempts == 2

Digits == <<"0", "1", "2", "3", "4", "5", "6", "7", "8", "9">>

\* attempts.toString()
toString(n) == Digits[n + 1]

\* parseInt(question.dataset.attempts || '0', 10)
ParseInt(str) == IF str = "" THEN 0 ELSE CHOOSE n \in 0..9 : Digits[n + 1] = str

\* an .option element as authored: its static "correct" class, nothing else
Option(isCorrect) ==
    [correct |-> isCorrect, userCorrect |-> FALSE, userIncorrect |-> FALSE,
     revealedAnswer |-> FALSE, disabled |-> FALSE]

\* explanation.style.display === 'none' || explanation.style.display === ''
Hidden(e) == e.display = "none" \/ e.display = ""

\* showExplanation(button), e being the button and its nextElementSibling;
\* "Gizle" and "Goster" stand for the two button texts it writes
showExplanation(e) ==
    IF ~e.present THEN e
    ELSE IF Hidden(e)
    THEN [e EXCEPT !.display = "block", !.animation = "fadeIn 0.5s ease-in-out",
                   !.button = "Gizle"]
    ELSE [e EXCEPT !.display = "none", !.button = "Goster"]

\* Mutant: resolving a question toggles its explanation like the button does.
revealExplanationToggles(e) == showExplanation(e)

\* revealExplanation(question)
revealExplanation(e) ==
    IF e.present /\ Hidden(e) THEN showExplanation(e) ELSE e

\* Mutant: a second click on an option marked user-incorrect is not ignored.
OptionIgnoredWhenAnswered(q, o) == answered[q] = "true"

\* question.dataset.answered === 'true' || option.classList.contains('user-incorrect')
OptionIgnored(q, o) == answered[q] = "true" \/ options[q][o].userIncorrect

\* Mutant: no option is disabled when the question is resolved.
DisableNone(opts) == opts

\* question.querySelectorAll('.option').forEach(opt => opt.setAttribute('disabled', 'true'))
DisableAll(opts) == [k \in 1..Len(opts) |-> [opts[k] EXCEPT !.disabled = TRUE]]

\* question.querySelector('.option.correct'): the first correct option, or Null
FirstCorrect(opts) ==
    IF \E k \in 1..Len(opts) : opts[k].correct
    THEN CHOOSE k \in 1..Len(opts) :
             opts[k].correct /\ \A j \in 1..(k - 1) : ~opts[j].correct
    ELSE Null

\* Mutant: the correct option is not revealed after the second wrong answer.
RevealAnswerSkipped(opts) == opts

\* correctOption.classList.add('revealed-answer') when there is a correct option
RevealAnswer(opts) ==
    IF FirstCorrect(opts) = Null THEN opts
    ELSE [opts EXCEPT ![FirstCorrect(opts)].revealedAnswer = TRUE]

\* the correct branch: classes and attributes of the options afterwards
AfterCorrect(opts, o) == DisableAll([opts EXCEPT ![o].userCorrect = TRUE])

\* the incorrect branch, n being the incremented attempts
AfterIncorrect(opts, o, n) ==
    LET marked == [opts EXCEPT ![o].userIncorrect = TRUE, ![o].disabled = TRUE]
    IN  IF n >= MaxAttempts THEN DisableAll(RevealAnswer(marked)) ELSE marked

\* Mutant: the question is resolved on the first wrong answer already.
ResolvesEarly(isCorrect, n) == TRUE

\* the click resolves the question: correct pick, or attempts >= 2
Resolves(isCorrect, n) == isCorrect \/ n >= MaxAttempts

\* Mutant: an option click in exam mode moves on to the next question.
ViewAdvancedByClick ==
    /\ currentQuestionIndex' =
           IF currentMode = "exam" /\ HasNext THEN currentQuestionIndex + 1
           ELSE currentQuestionIndex
    /\ UNCHANGED <<allQuestions, currentMode, cache, childNodes, surface, progressText,
                   prevDisabled, nextDisabled, viewMode, activeBtns>>

\* handleOptionClick reads and writes the clicked question alone
ViewKeptByClick == UNCHANGED progVars

\* click on option o of question q
handleOptionClick(q, o) ==
    /\ IF OptionIgnored(q, o)
       THEN UNCHANGED quizVars
       ELSE LET n == ParseInt(attempts[q]) + 1
                isCorrect == options[q][o].correct
            IN  /\ attempts' = [attempts EXCEPT ![q] = toString(n)]
                /\ options' = [options EXCEPT ![q] =
                                  IF isCorrect THEN AfterCorrect(options[q], o)
                                  ELSE AfterIncorrect(options[q], o, n)]
                /\ IF Resolves(isCorrect, n)
                   THEN /\ answered' = [answered EXCEPT ![q] = "true"]
                        /\ explanation' = [explanation EXCEPT
                                              ![q] = revealExplanation(explanation[q])]
                   ELSE UNCHANGED <<answered, explanation>>
    /\ uncaught' = "none"
    /\ ViewKeptByClick
    /\ UNCHANGED sectionVars
    /\ UNCHANGED histVars

OptionClick ==
    \E q \in 1..Len(allQuestions) : \E o \in 1..Len(options[q]) : handleOptionClick(q, o)

\* click on the .show-answer-btn of question q
clickShowAnswer(q) ==
    /\ explanation[q].present
    /\ explanation' = [explanation EXCEPT ![q] = showExplanation(explanation[q])]
    /\ uncaught' = "none"
    /\ UNCHANGED <<attempts, answered, options>>
    /\ UNCHANGED progVars
    /\ UNCHANGED sectionVars
    /\ UNCHANGED histVars

ExplanationClick == \E q \in 1..Len(allQuestions) : clickShowAnswer(q)

\* The view handlers, without their history
ModeClick == \E newMode \in Modes : switchModeCore(newMode) /\ UNCHANGED histVars
PrevClick == ClickPrevCore /\ UNCHANGED histVars
NextClick == ClickNextCore /\ UNCHANGED histVars

\* Documents of one or two questions in one container, formatted (a text node
\* after every question) or minified (none), with all four cached elements
\* and the same explanation markup in every question.
QuizQuestionCounts == {1, 2}

\* the markup of an explanation: absent, or present with no inline display
\* (the click handlers write "block" and "none" themselves)
ExplanationMarkups ==
    {NoExplanation,
     [present |-> TRUE, display |-> "", animation |-> "", button |-> "markup"]}

RECURSIVE Sum(_, _)
Sum(f, n) == IF n = 0 THEN 0 ELSE f[n] + Sum(f, n - 1)

QuizInit ==
    \E n \in QuizQuestionCounts :
    \E sep \in BOOLEAN :
    \E count \in [1..n -> 0..MaxOptions] :
    \E corr \in [1..n -> SUBSET (1..MaxOptions)] :
    \E ex \in ExplanationMarkups :
        /\ Sum(count, n) <= MaxOptions
        /\ \A q \in 1..n : corr[q] \subseteq 1..count[q]
        /\ childNodes = [p \in 1..NumParents |->
                            Markup(n, [i \in 1..n |-> 1], [i \in 1..n |-> sep], p, 1)]
        /\ layout = childNodes
        /\ allQuestions = Registry(childNodes)
        /\ cache = Cached
        /\ currentQuestionIndex = 0
        /\ currentMode = "list"
        /\ surface = <<>>
        /\ progressText = <<>>
        /\ prevDisabled = FALSE
        /\ nextDisabled = FALSE
        /\ viewMode = "unset"
        /\ activeBtns = {"list"}
        /\ uncaught = "none"
        /\ lastCall = "none"
        /\ rendered = FALSE
        /\ trip = "start"
        /\ nextClicks = -1
        /\ lastActive = 0
        /\ InitQuestionState(n)
        /\ options = [q \in 1..n |-> [k \in 1..count[q] |-> Option(k \in corr[q])]]
        /\ explanation = [q \in 1..n |-> ex]
        /\ NoSections

NextQuiz == ModeClick \/ PrevClick \/ NextClick \/ OptionClick \/ ExplanationClick

SpecQuiz == QuizInit /\ [][NextQuiz]_vars

---------------------------------------------------------------------------
\* Week sections, the floating menu and the keyboard

NumWeeks == 2

\* a .toggle-icon as authored, if the week has one
Icon(isPresent) == [present |-> isPresent, transform |-> ""]

\* toggleWeek(weekNumber) on the sections sec = [active, icon]
toggleWeek(sec, w) ==
    IF w \in 1..Len(sec.active) /\ sec.icon[w].present
    THEN [active |-> [sec.active EXCEPT ![w] = ~sec.active[w]],
          icon |-> [sec.icon EXCEPT ![w].transform =
                       IF ~sec.active[w] THEN "rotate(180deg)" ELSE "rotate(0deg)"]]
    ELSE sec

\* every .week-content gets or loses class "active", every .toggle-icon its rotation
SetAll(sec, isActive) ==
    [active |-> [w \in 1..Len(sec.active) |-> isActive],
     icon |-> [w \in 1..Len(sec.icon) |->
                  IF sec.icon[w].present
                  THEN [sec.icon[w] EXCEPT !.transform =
                           IF isActive THEN "rotate(180deg)" ELSE "rotate(0deg)"]
                  ELSE sec.icon[w]]]

\* Mutant: expandAll and collapseAll act in every mode.
ReturnsEarlyNever == FALSE

\* if (currentMode !== 'list') return;
ReturnsEarly == currentMode # "list"

\* expandAll()
expandAll(sec) == IF ReturnsEarly THEN sec ELSE SetAll(sec, TRUE)

\* collapseAll()
collapseAll(sec) == IF ReturnsEarly THEN sec ELSE SetAll(sec, FALSE)

Sections == [active |-> weekActive, icon |-> iconTransform]

\* a handler outside the view and the answers: the sections it leaves, the
\* state of the menu, the function it called
SectionStep(sec, menu, called) ==
    /\ weekActive' = sec.active
    /\ iconTransform' = sec.icon
    /\ menuOpen' = menu
    /\ lastCall' = called
    /\ uncaught' = "none"
    /\ UNCHANGED progVars
    /\ UNCHANGED quizVars
    /\ UNCHANGED <<layout, rendered, trip, nextClicks, lastActive>>

\* click on the .week-header with data-week = w
WeekHeaderClick(w) == SectionStep(toggleWeek(Sections, w), menuOpen, "toggleWeek")

\* click on #fab-main-btn: fabControls?.classList.toggle('menu-open')
FabMainClick ==
    SectionStep(Sections, IF "fabControls" \in cache THEN ~menuOpen ELSE menuOpen, "none")

FabControlValues == {"expand-all", "collapse-all", "scroll-top"}

\* click on the .fab-action with data-control = control; the menu closes
FabActionClick(control) ==
    SectionStep(CASE control = "expand-all" -> expandAll(Sections)
                  [] control = "collapse-all" -> collapseAll(Sections)
                  [] OTHER -> Sections,
                FALSE,
                CASE control = "expand-all" -> "expandAll"
                  [] control = "collapse-all" -> "collapseAll"
                  [] OTHER -> "scrollToTop")

Keys == {"ctrl+e", "ctrl+c", "Home"}

\* keydown with ctrl+e, ctrl+c or Home
KeyDown(key) ==
    SectionStep(CASE key = "ctrl+e" -> expandAll(Sections)
                  [] key = "ctrl+c" -> collapseAll(Sections)
                  [] OTHER -> Sections,
                menuOpen,
                CASE key = "ctrl+e" -> "expandAll"
                  [] key = "ctrl+c" -> "collapseAll"
                  [] OTHER -> "scrollToTop")

ClickWeekHeader == \E w \in 1..Len(weekActive) : WeekHeaderClick(w)
ClickFabAction == \E control \in FabControlValues : FabActionClick(control)
PressKey == \E key \in Keys : KeyDown(key)

\* Documents of up to NumWeeks week sections, each with or without its icon
\* and with or without class "active" in the markup, with or without
\* #fab-controls, and one question; week 1 is toggled once at load.
SectionsInit ==
    \E nw \in 0..NumWeeks :
    \E markupActive \in [1..nw -> BOOLEAN] :
    \E hasIcon \in [1..nw -> BOOLEAN] :
    \E fab \in SUBSET {"fabControls"} :
        LET authored == [active |-> markupActive,
                         icon |-> [w \in 1..nw |-> Icon(hasIcon[w])]]
            loaded == IF nw >= 1 THEN toggleWeek(authored, 1) ELSE authored
        IN  /\ weekActive = loaded.active
            /\ iconTransform = loaded.icon
            /\ menuOpen = FALSE
            /\ cache = Cached \cup fab
            /\ childNodes = [p \in 1..NumParents |->
                                Markup(1, <<1>>, <<TRUE>>, p, 1)]
            /\ layout = childNodes
            /\ allQuestions = Registry(childNodes)
            /\ currentQuestionIndex = 0
            /\ currentMode = "list"
            /\ surface = <<>>
            /\ progressText = <<>>
            /\ prevDisabled = FALSE
            /\ nextDisabled = FALSE
            /\ viewMode = "unset"
            /\ activeBtns = {"list"}
            /\ uncaught = "none"
            /\ lastCall = "none"
            /\ rendered = FALSE
            /\ trip = "start"
            /\ nextClicks = -1
            /\ lastActive = 0
            /\ PlainQuestions(1)

NextSections == ClickMode \/ ClickWeekHeader \/ FabMainClick \/ ClickFabAction \/ PressKey

SpecSections == SectionsInit /\ [][NextSections]_vars

---------------------------------------------------------------------------
\* Vocabulary of the properties

NumQuestions == Len(allQuestions)

Min(a, b) == IF a < b THEN a ELSE b

\* the element of registry entry k is a child of its originalParent
Attached(k) == Contains(childNodes[allQuestions[k].originalParent], allQuestions[k].element)

\* ... and sits immediately before its originalNextSibling (last if it had none)
InPlace(k) ==
    /\ Attached(k)
    /\ NextSiblingIn(childNodes[allQuestions[k].originalParent], allQuestions[k].element)
           = allQuestions[k].originalNextSibling

OnSurface(k) == Contains(surface, allQuestions[k].element)

\* the element of entry k is in the document nowhere
Detached(k) ==
    /\ ~OnSurface(k)
    /\ \A p \in 1..NumParents : ~Contains(childNodes[p], allQuestions[k].element)

\* restoreListView called once more on view record v
Rerun(v) == restoreListView([v EXCEPT !.uncaught = "none"])

---------------------------------------------------------------------------
\* C1: after the round trip List -> Single/Exam -> previous/next clicks -> List
\* from the initial state, every question is a child of its original parent
\* again and every parent's children are in their initial order.
RoundTripRestoresLayout ==
    trip = "back" => (\A k \in 1..NumQuestions : Attached(k)) /\ childNodes = layout

\* C2: whenever mode = List, every question is attached to its originalParent
\* immediately before its originalNextSibling (last if none), and none is in the
\* display surface or detached.
ListModeInPlace ==
    currentMode = "list" => \A k \in 1..NumQuestions : InPlace(k) /\ ~OnSurface(k)

\* C3: a restoreListView pass handles every registry entry and never ends in
\* an error: after it every element is a child of its originalParent.
RestorePassCompletes ==
    lastCall = "restoreListView" =>
        uncaught = "none" /\ \A k \in 1..NumQuestions : Attached(k)

\* C4: once restoreListView has run, the document order is the one captured at
\* initialization, and running restoreListView again (once or twice more)
\* leaves it so.
RestoreIdempotent ==
    lastCall = "restoreListView" =>
        /\ childNodes = layout
        /\ Rerun(View).childNodes = layout
        /\ Rerun(Rerun(View)).childNodes = layout

\* C5 as stated: whenever mode # List, 0 <= currentIndex < registry.length,
\* for every registry size including zero.
IndexInRange ==
    currentMode # "list" => 0 <= currentQuestionIndex /\ currentQuestionIndex < NumQuestions

\* C5 amended: whenever mode # List and the registry is not empty,
\* 0 <= currentIndex < registry.length; with an empty registry currentIndex is 0.
IndexInRangeNonEmpty ==
    /\ (currentMode # "list" /\ NumQuestions > 0) =>
           (0 <= currentQuestionIndex /\ currentQuestionIndex < NumQuestions)
    /\ NumQuestions = 0 => currentQuestionIndex = 0

\* next was clicked at the last index of a registry of two or more, outside List
IndexAtUpperEnd ==
    /\ currentMode # "list"
    /\ NumQuestions >= 2
    /\ currentQuestionIndex = NumQuestions - 1
    /\ nextClicks > currentQuestionIndex

\* C6: whenever mode # List, with a non-empty registry and the surface, the
\* progress readout and both controls present, the display surface holds
\* exactly one question element, the one of registry[currentIndex].
SurfaceShowsCurrent ==
    (currentMode # "list" /\ RenderActs) =>
        (/\ 0 <= currentQuestionIndex /\ currentQuestionIndex < NumQuestions
         /\ surface = <<allQuestions[currentQuestionIndex + 1].element>>)

\* a second question is displayed after another one was
SecondQuestionShown ==
    /\ currentMode # "list"
    /\ RenderActs
    /\ currentQuestionIndex = 1
    /\ lastCall = "renderSingleQuestion"
    /\ Detached(1)

\* C7 as stated, in a document that has the surface, the progress readout and
\* both controls: whenever mode # List, every question that is not in the
\* display surface is detached from the document.
OthersDetached ==
    (currentMode # "list" /\ RenderActs) =>
        \A k \in 1..NumQuestions : OnSurface(k) \/ Detached(k)

\* C7 amended: whenever mode # List, no question other than
\* registry[currentIndex] is in the display surface; each other question is
\* either detached or still a child of its originalParent and of no other
\* container.
OthersOffSurface ==
    currentMode # "list" =>
        \A k \in 1..NumQuestions :
            k # currentQuestionIndex + 1 =>
                /\ ~OnSurface(k)
                /\ Detached(k) \/ Attached(k)
                /\ \A p \in 1..NumParents :
                       Contains(childNodes[p], allQuestions[k].element)
                           => p = allQuestions[k].originalParent

\* outside List, one question shown, one cleared away and one never moved
ShownClearedAndUntouched ==
    /\ currentMode # "list"
    /\ NumQuestions = 3
    /\ surface = <<2>>
    /\ Detached(1)
    /\ Attached(3)

\* C8: once a renderSingleQuestion call has taken effect, previous is disabled
\* exactly when currentIndex = 0 and next exactly when
\* currentIndex = registry.length - 1.
NavigationBounds ==
    rendered =>
        /\ prevDisabled <=> (currentQuestionIndex = 0)
        /\ nextDisabled <=> (currentQuestionIndex = NumQuestions - 1)

\* a registry of length 1 rendered: both controls disabled at once
BothDisabled == rendered /\ NumQuestions = 1 /\ prevDisabled /\ nextDisabled

\* C9: for every valid i and every reachable state, a second
\* renderSingleQuestion(i) changes nothing the first one left: surface, child
\* lists, progress text, disabled flags and currentIndex.
RenderIdempotent ==
    \A i \in 0..(NumQuestions - 1) :
        renderSingleQuestion(renderSingleQuestion(View, i), i) = renderSingleQuestion(View, i)

\* a state in which another question than the one to render is displayed
RenderOverShownQuestion ==
    /\ RenderActs
    /\ NumQuestions >= 2
    /\ surface = <<2>>
    /\ progressText = <<"Soru", 2, "/", NumQuestions>>
    /\ renderSingleQuestion(View, 0).surface = <<1>>

\* the elements C10 speaks of: the progress readout and the two controls
NavigationPresent == {"questionProgress", "prevQuestionBtn", "nextQuestionBtn"} \subseteq cache

\* C10 as stated: with a registry of length N >= 1 (and a progress readout and
\* the two controls to speak of), k next clicks from index 0 in Single/Exam
\* lead to currentIndex = min(k, N-1) with progress text
\* `Soru currentIndex+1 / N`.
NavigationStepping ==
    (nextClicks >= 0 /\ NumQuestions >= 1 /\ NavigationPresent) =>
        /\ currentQuestionIndex = Min(nextClicks, NumQuestions - 1)
        /\ progressText = <<"Soru", currentQuestionIndex + 1, "/", NumQuestions>>

\* a next click at the last index, or a previous click at index 0
BoundaryClick ==
    \/ ClickNext /\ currentQuestionIndex = NumQuestions - 1
    \/ ClickPrev /\ currentQuestionIndex = 0

\* C10 amended: provided the display surface is present too (with the
\* progress readout and both controls), with a registry of length N >= 1, k
\* next clicks from index 0 in Single/Exam lead to currentIndex = min(k, N-1)
\* with progress text
\* `Soru currentIndex+1 / N` and next disabled exactly at N-1; a next click at
\* N-1 and a previous click at 0 change no program state.
NavigationSteppingWhenRenderActs ==
    /\ [](nextClicks >= 0 /\ RenderActs =>
            /\ currentQuestionIndex = Min(nextClicks, NumQuestions - 1)
            /\ progressText = <<"Soru", currentQuestionIndex + 1, "/", NumQuestions>>
            /\ nextDisabled <=> (currentQuestionIndex = NumQuestions - 1))
    /\ [][BoundaryClick => UNCHANGED progVars]_vars

\* three questions, index 0 shown, then four next clicks: the last two no-ops
ClickedPastTheEnd ==
    /\ RenderActs
    /\ NumQuestions = 3
    /\ nextClicks = 4
    /\ currentQuestionIndex = 2
    /\ progressText = <<"Soru", 3, "/", 3>>

\* C11: a switch into Single or Exam from another mode displays the question
\* whose index was shown when the mode was last Single/Exam (index 0 before
\* the first entry), also after a stay in List and between Single and Exam.
EntryShowsLastActive ==
    [][(currentMode' # "list" /\ currentMode' # currentMode /\ RenderActs) =>
          /\ currentQuestionIndex' = lastActive
          /\ surface' = <<allQuestions[lastActive + 1].element>>]_vars

---------------------------------------------------------------------------
\* Vocabulary of the answer properties

\* the page state an answer writes: dataset values, option classes and
\* attributes, explanation visibility
AnswerState(q) == <<attempts[q], answered[q], options[q], explanation[q]>>

\* number of options of question q marked user-incorrect
UserIncorrectCount(q) ==
    Cardinality({k \in 1..Len(options[q]) : options[q][k].userIncorrect})

\* some option of question q is marked user-correct
UserCorrect(q) == \E k \in 1..Len(options[q]) : options[q][k].userCorrect

\* every page variable outside the quiz state is as it was
PageKept ==
    UNCHANGED <<allQuestions, currentQuestionIndex, currentMode, cache, childNodes,
                surface, progressText, prevDisabled, nextDisabled, viewMode,
                activeBtns, weekActive, iconTransform, menuOpen>>

\* C12: in every step (option click, explanation click, mode switch,
\* previous/next click) a question whose answered is "true" keeps it, and
\* no question's attempts decreases.
AnswerStateMonotone ==
    [][\A q \in 1..NumQuestions :
          /\ answered[q] = "true" => answered'[q] = "true"
          /\ ParseInt(attempts'[q]) >= ParseInt(attempts[q])]_vars

\* a question resolved after two attempts is on the surface in exam mode,
\* reached by navigation after it was answered in another view
ResolvedThenNavigated ==
    /\ currentMode = "exam"
    /\ NumQuestions = 2
    /\ currentQuestionIndex = 1
    /\ surface = <<allQuestions[2].element>>
    /\ answered[1] = "true" /\ attempts[1] = "2"
    /\ answered[2] = "true" /\ attempts[2] = "1"

\* C13: a click on an option of a question whose answered is "true", or on an
\* option marked user-incorrect, leaves attempts, answered, every option's
\* marks and disabled flag and the explanation of every question as they
\* were, and the rest of the page too.
IgnoredClickChangesNothing ==
    [][\A q \in 1..NumQuestions : \A o \in 1..Len(options[q]) :
          (/\ handleOptionClick(q, o)
           /\ answered[q] = "true" \/ options[q][o].userIncorrect)
          => UNCHANGED quizVars /\ PageKept]_vars

\* an unanswered question with one option marked user-incorrect (a click on
\* it is ignored) next to an answered one (a click on any option is ignored)
IgnorableClicks ==
    /\ NumQuestions = 2
    /\ answered[1] = "false" /\ attempts[1] = "1"
    /\ \E o \in 1..Len(options[1]) : options[1][o].userIncorrect
    /\ answered[2] = "true"
    /\ Len(options[2]) >= 1

\* C14: on a question with attempts "0" a click on a wrong option gives
\* attempts "1", marks and disables that option alone, leaves answered
\* "false" and the explanation as it was; on a question with attempts "1" a
\* click on another wrong option gives attempts "2" and answered "true",
\* flags the (first) correct option revealed-answer, disables every option
\* and leaves the explanation shown.
TwoWrongAnswers ==
    [][\A q \in 1..NumQuestions : \A o \in 1..Len(options[q]) :
          (/\ handleOptionClick(q, o)
           /\ answered[q] = "false"
           /\ ~options[q][o].correct
           /\ ~options[q][o].userIncorrect)
          =>
          /\ attempts[q] = "0" =>
                /\ attempts'[q] = "1"
                /\ answered'[q] = "false"
                /\ options'[q] = [options[q] EXCEPT ![o].userIncorrect = TRUE,
                                                    ![o].disabled = TRUE]
                /\ explanation'[q] = explanation[q]
          /\ attempts[q] = "1" =>
                /\ attempts'[q] = "2"
                /\ answered'[q] = "true"
                /\ options'[q][o].userIncorrect
                /\ \A k \in 1..Len(options[q]) :
                      /\ options'[q][k].disabled
                      /\ (options[q][k].correct /\ \A j \in 1..(k - 1) : ~options[q][j].correct)
                            => options'[q][k].revealedAnswer
                /\ explanation[q].present => explanation'[q].display = "block"]_vars

\* a question after its second wrong answer: two options marked
\* user-incorrect, the correct one revealed, its explanation opened by the
\* click
SecondWrongAnswerGiven ==
    \E q \in 1..NumQuestions :
        /\ attempts[q] = "2" /\ answered[q] = "true"
        /\ UserIncorrectCount(q) = 2
        /\ \E k \in 1..Len(options[q]) :
              options[q][k].correct /\ options[q][k].revealedAnswer
        /\ \A k \in 1..Len(options[q]) : options[q][k].disabled
        /\ explanation[q].present /\ explanation[q].display = "block"
        /\ explanation[q].button = "Gizle"

\* the four answer states of a question
Phase(q) ==
    CASE answered[q] = "false" /\ attempts[q] = "0" /\ UserIncorrectCount(q) = 0
            /\ ~UserCorrect(q)                                  -> "Unanswered"
      [] answered[q] = "false" /\ attempts[q] = "1" /\ UserIncorrectCount(q) = 1
            /\ ~UserCorrect(q)                                  -> "OneWrongAttempt"
      [] answered[q] = "true" /\ UserCorrect(q)
            /\ attempts[q] \in {"1", "2"}                       -> "ResolvedCorrect"
      [] answered[q] = "true" /\ ~UserCorrect(q) /\ attempts[q] = "2"
            /\ UserIncorrectCount(q) = 2                        -> "ResolvedExhausted"
      [] OTHER                                                  -> "none"

Phases == {"Unanswered", "OneWrongAttempt", "ResolvedCorrect", "ResolvedExhausted"}

PhaseSteps ==
    {<<"Unanswered", "OneWrongAttempt">>, <<"Unanswered", "ResolvedCorrect">>,
     <<"OneWrongAttempt", "ResolvedCorrect">>, <<"OneWrongAttempt", "ResolvedExhausted">>}

\* C15: every question is always in one of the four states Unanswered,
\* OneWrongAttempt, Resolved(Correct), Resolved(Exhausted), and a step either
\* keeps its state or takes one of the four transitions; the Resolved states
\* are therefore terminal and Unanswered has no way back.
AnswerStateMachine ==
    /\ [](\A q \in 1..NumQuestions : Phase(q) \in Phases)
    /\ [][\A q \in 1..NumQuestions :
             Phase(q)' = Phase(q) \/ <<Phase(q), Phase(q)'>> \in PhaseSteps]_vars

\* one question resolved by a correct second pick next to one with a first
\* wrong answer
BothResolutions ==
    /\ \E q \in 1..NumQuestions : Phase(q) = "ResolvedCorrect" /\ attempts[q] = "2"
    /\ \E q \in 1..NumQuestions : Phase(q) = "OneWrongAttempt"

\* C16 as stated: attempts is the number of options marked user-incorrect.
AttemptsCountWrongAnswers ==
    \A q \in 1..NumQuestions : ParseInt(attempts[q]) = UserIncorrectCount(q)

\* C16 amended: attempts is the number of accepted clicks, wrong or correct:
\* the options marked user-incorrect, plus one when an option is marked
\* user-correct.
AttemptsCountAcceptedClicks ==
    \A q \in 1..NumQuestions :
        ParseInt(attempts[q]) = UserIncorrectCount(q) + (IF UserCorrect(q) THEN 1 ELSE 0)

\* a question answered correctly at the second attempt: attempts "2", one
\* option marked user-incorrect
CorrectAtSecondAttempt ==
    \E q \in 1..NumQuestions :
        /\ attempts[q] = "2"
        /\ UserIncorrectCount(q) = 1
        /\ UserCorrect(q)

\* C17: a click that resolves a question leaves its explanation displayed,
\* whether it was hidden or shown before; a click on the show-answer button
\* flips between hidden and shown in every answer state and changes neither
\* attempts nor answered nor any option.
ExplanationShownAndToggled ==
    [][\A q \in 1..NumQuestions :
          /\ (answered[q] = "false" /\ answered'[q] = "true" /\ explanation[q].present)
                => explanation'[q].display = "block"
          /\ clickShowAnswer(q) =>
                /\ Hidden(explanation'[q]) = ~Hidden(explanation[q])
                /\ UNCHANGED <<attempts, answered, options>>]_vars

\* a resolved question whose explanation the button has hidden again
HiddenAfterResolution ==
    \E q \in 1..NumQuestions :
        /\ answered[q] = "true"
        /\ explanation[q].present
        /\ explanation[q].display = "none"
        /\ explanation[q].button = "Goster"

\* C19: a mode-button click and a previous/next click change no question's
\* attempts, answered, option marks or disabled flags, whether the question
\* is in a container, on the surface or detached; an option click changes
\* neither the mode nor the index nor the place of any question.
ViewAndAnswersIndependent ==
    [][/\ (ModeClick \/ PrevClick \/ NextClick) => UNCHANGED <<attempts, answered, options>>
       /\ OptionClick => UNCHANGED <<currentMode, currentQuestionIndex, childNodes,
                                      surface>>]_vars

\* an answered question that a later render removed from the surface
AnsweredAndDetached ==
    /\ NumQuestions = 2
    /\ currentMode # "list"
    /\ currentQuestionIndex = 1
    /\ Detached(1)
    /\ answered[1] = "true"
    /\ \E o \in 1..Len(options[1]) : options[1][o].userIncorrect /\ options[1][o].disabled
    /\ attempts[2] = "1"

\* C20: every option of a question whose answered is "true" is disabled; an
\* option of a question whose answered is "false" is disabled only if it is
\* marked user-incorrect.
DisabledOptions ==
    \A q \in 1..NumQuestions : \A k \in 1..Len(options[q]) :
        /\ answered[q] = "true" => options[q][k].disabled
        /\ (answered[q] = "false" /\ options[q][k].disabled) => options[q][k].userIncorrect

\* an answered question with two disabled options, one of them never clicked,
\* next to an unanswered one with a disabled option
DisabledBothWays ==
    /\ NumQuestions = 2
    /\ answered[1] = "true"
    /\ Len(options[1]) = 2
    /\ \E k \in 1..2 : /\ options[1][k].disabled
                       /\ ~options[1][k].userCorrect /\ ~options[1][k].userIncorrect
    /\ answered[2] = "false"
    /\ Len(options[2]) = 1
    /\ options[2][1].disabled

\* C18: expandAll and collapseAll, called from the floating menu or by
\* ctrl+e / ctrl+c, leave the expanded state of every section as it was
\* when the mode is not List; in List mode expandAll leaves every section
\* expanded and collapseAll leaves every section collapsed.
ExpandCollapseInListOnly ==
    [][/\ (FabActionClick("expand-all") \/ KeyDown("ctrl+e")) =>
             IF currentMode = "list"
             THEN \A w \in 1..Len(weekActive) : weekActive'[w]
             ELSE UNCHANGED <<weekActive, iconTransform>>
       /\ (FabActionClick("collapse-all") \/ KeyDown("ctrl+c")) =>
             IF currentMode = "list"
             THEN \A w \in 1..Len(weekActive) : ~weekActive'[w]
             ELSE UNCHANGED <<weekActive, iconTransform>>]_vars

\* expandAll was called in exam mode and the second section is still collapsed
ExpandAllOutsideList ==
    /\ lastCall = "expandAll"
    /\ currentMode = "exam"
    /\ weekActive = <<TRUE, FALSE>>

====
